---- MODULE Spec2Model ----
(***************************************************************************)
(* A model of gulp-css-gsub: the Replacer engine (class-name catalog,      *)
(* token generator, script/stylesheet substitution) and the gulp adapter.  *)
(* Strings are sequences of one-character strings, so that the regular     *)
(* expressions of the source are modelled by what they match.              *)
(***************************************************************************)
EXTENDS Integers, Sequences, FiniteSets, TLC

VARIABLES
    files,      \* what is on disk: [css |-> rule list of cssIn, js |-> nodes of jsIn]
    config,     \* this.config
    pc,         \* position in run() / the adapter's calls
    cssText,    \* this.cssText
    rules,      \* this.rules, i.e. this.cssAst.stylesheet.rules (mutated by generateCss)
    classes,    \* this.classes
    jsAst,      \* the nodes of this.jsAst, in traversal order
    pos,        \* index of the next node estraverse enters
    counter,    \* this.counter
    key,        \* this.key
    items,      \* this.replacements.items
    count,      \* this.replacements.count
    hist,       \* history: what each operation did (not read by the operations)
    adConfig,   \* the adapter's closure variable `config`
    adLog       \* the adapter: one record per file passed through the stream

vars == <<files, config, pc, cssText, rules, classes, jsAst, pos, counter, key,
          items, count, hist, adConfig, adLog>>

engineVars == <<files, config, pc, cssText, rules, classes, jsAst, pos, counter,
                key, items, count, hist>>

adapterVars == <<adConfig, adLog>>

----------------------------------------------------------------------------
(* Characters and strings *)

Digits == {"0", "1", "2", "3", "4", "5", "6", "7", "8", "9"}

Lower == <<"a", "b", "c", "d", "e", "f", "g", "h", "i", "j", "k", "l", "m",
           "n", "o", "p", "q", "r", "s", "t", "u", "v", "w", "x", "y", "z">>

Upper == <<"A", "B", "C", "D", "E", "F", "G", "H", "I", "J", "K", "L", "M",
           "N", "O", "P", "Q", "R", "S", "T", "U", "V", "W", "X", "Y", "Z">>

Range(s) == {s[i] : i \in DOMAIN s}

IsLetter(c) == c \in Range(Lower) \cup Range(Upper)

\* the `i` flag: letters compare without case
ToLower(c) ==
    IF c \in Range(Upper)
    THEN Lower[CHOOSE i \in DOMAIN Upper : Upper[i] = c]
    ELSE c

\* \w
IsWordChar(c) == IsLetter(c) \/ c \in Digits \/ c = "_"

\* [0-9a-zA-Z\-_]
IsClsChar(c) == IsLetter(c) \/ c \in Digits \/ c \in {"-", "_"}

\* \b at index i of s: exactly one of s[i-1], s[i] is a word character
WordBoundary(s, i) ==
    LET w(k) == k \in DOMAIN s /\ IsWordChar(s[k])
    IN  w(i - 1) # w(i)

\* p occurs in s at index i
OccursAt(s, i, p) ==
    /\ i >= 1
    /\ i + Len(p) - 1 <= Len(s)
    /\ \A k \in DOMAIN p : s[i + k - 1] = p[k]

\* p occurs in s at index i, letters compared without case
OccursAtNoCase(s, i, p) ==
    /\ i >= 1
    /\ i + Len(p) - 1 <= Len(s)
    /\ \A k \in DOMAIN p : ToLower(s[i + k - 1]) = ToLower(p[k])

Contains(s, p) == \E i \in 1..(Len(s) + 1) : OccursAt(s, i, p)

\* Array.prototype.join
RECURSIVE Join(_, _)
Join(ss, sep) ==
    IF ss = <<>> THEN <<>>
    ELSE IF Len(ss) = 1 THEN ss[1]
    ELSE ss[1] \o sep \o Join(Tail(ss), sep)

\* String.prototype.split on a one-character separator
RECURSIVE Split(_, _)
Split(s, c) ==
    IF \A i \in DOMAIN s : s[i] # c THEN <<s>>
    ELSE LET i == CHOOSE j \in DOMAIN s : s[j] = c /\ \A k \in 1..(j - 1) : s[k] # c
         IN  <<SubSeq(s, 1, i - 1)>> \o Split(SubSeq(s, i + 1, Len(s)), c)

\* s.replace(/\./g, "")
RemoveDots(s) == SelectSeq(s, LAMBDA c : c # ".")

\* the number of class characters of s from index i on
RECURSIVE RunLen(_, _)
RunLen(s, i) ==
    IF i \in DOMAIN s /\ IsClsChar(s[i]) THEN 1 + RunLen(s, i + 1) ELSE 0

\* the string a selector gets for a class that has no entry: "." + undefined
Undefined == <<"u", "n", "d", "e", "f", "i", "n", "e", "d">>

NoPrefix == <<>>

----------------------------------------------------------------------------
(* Token generator *)

Digits34 == <<"0", "1", "2", "3", "4", "5", "6", "7", "8", "9",
              "a", "b", "c", "d", "e", "f", "g", "h", "i", "j", "k", "l",
              "m", "n", "o", "p", "q", "r", "s", "t", "u", "v", "w", "x">>

Radix == 34

\* Number.prototype.toString(34)
RECURSIVE ToString34(_)
ToString34(n) ==
    IF n < Radix THEN <<Digits34[n + 1]>>
    ELSE ToString34(n \div Radix) \o <<Digits34[(n % Radix) + 1]>>

\* Faulty variant: the test without its rule for the first characters
TestClassNameAnyStart(s) == Len(s) >= 1 /\ \A k \in DOMAIN s : IsClsChar(s[k])

\* /^([a-z_]|-[a-z_-])[a-z\d_-]*$/i .test(className)
TestClassName(s) ==
    LET rest(from) == \A k \in from..Len(s) : IsClsChar(s[k])
    IN  \/ /\ Len(s) >= 1
           /\ IsLetter(s[1]) \/ s[1] = "_"
           /\ rest(2)
        \/ /\ Len(s) >= 2
           /\ s[1] = "-"
           /\ IsLetter(s[2]) \/ s[2] \in {"_", "-"}
           /\ rest(3)

\* cssText.search(new RegExp('\\b\\.' + className + '\\b', 'gi')) > -1
SearchClass(text, className) ==
    \E p \in DOMAIN text :
        /\ WordBoundary(text, p)
        /\ text[p] = "."
        /\ OccursAtNoCase(text, p + 1, className)
        /\ WordBoundary(text, p + 1 + Len(className))

\* Faulty variant: succ() without the this.counter++ that follows the loop
RECURSIVE SuccStuck(_, _)
SuccStuck(c, text) ==
    IF ~TestClassName(ToString34(c)) THEN SuccStuck(c + 1, text)
    ELSE IF SearchClass(text, ToString34(c)) THEN SuccStuck(c + 1, text)
    ELSE [className |-> ToString34(c), counter |-> c]

\* succ() started with this.counter = c: [className, counter] when it returns
RECURSIVE Succ(_, _)
Succ(c, text) ==
    LET className == ToString34(c)
    IN  IF ~TestClassName(className) THEN Succ(c + 1, text)
        ELSE IF SearchClass(text, className) THEN Succ(c + 1, text)
        ELSE [className |-> className, counter |-> c + 1]

----------------------------------------------------------------------------
(* The two patterns: generateCssClsRegExp and generateJsClsRegExp.         *)
(* config.regexp is left at its default (null) in every input, so the      *)
(* patterns are the prefix pattern or the default one. A match is          *)
(* [at |-> index, len |-> length]; -1 stands for "no match here".          *)

\* new RegExp("\\.(?:" + prefix + "){1}[0-9a-zA-Z\\-_]+") or
\* new RegExp("\\.[0-9a-zA-Z\\-_]+"), tried at index i
CssClsMatchLen(s, i, prefix) ==
    IF /\ i \in DOMAIN s
       /\ s[i] = "."
       /\ OccursAt(s, i + 1, prefix)
       /\ RunLen(s, i + 1 + Len(prefix)) >= 1
    THEN 1 + Len(prefix) + RunLen(s, i + 1 + Len(prefix))
    ELSE -1

\* new RegExp("(\\b" + prefix + "[0-9a-zA-Z\-_]+)") or
\* new RegExp(this.classes.join("|")), tried at index i: alternatives are tried
\* in the order of the catalog; the pattern of an empty catalog is empty and
\* matches the empty string everywhere
JsClsMatchLen(s, i, prefix, cls) ==
    IF prefix # NoPrefix
    THEN IF /\ WordBoundary(s, i)
            /\ OccursAt(s, i, prefix)
            /\ RunLen(s, i + Len(prefix)) >= 1
         THEN Len(prefix) + RunLen(s, i + Len(prefix))
         ELSE -1
    ELSE IF cls = <<>> THEN 0
    ELSE IF \E k \in DOMAIN cls : OccursAt(s, i, cls[k])
    THEN LET k == CHOOSE k \in DOMAIN cls :
                      /\ OccursAt(s, i, cls[k])
                      /\ \A h \in 1..(k - 1) : ~OccursAt(s, i, cls[h])
         IN  Len(cls[k])
    ELSE -1

\* the matches of the `g` stylesheet pattern in s, from index i on
RECURSIVE CssMatches(_, _, _)
CssMatches(s, i, prefix) ==
    IF i > Len(s) THEN <<>>
    ELSE LET n == CssClsMatchLen(s, i, prefix)
         IN  IF n = -1 THEN CssMatches(s, i + 1, prefix)
             ELSE <<[at |-> i, len |-> n]>> \o CssMatches(s, i + n, prefix)

\* the matches of the `g` script pattern in s, from index i on; after an empty
\* match the scan moves on by one character
RECURSIVE JsMatches(_, _, _, _)
JsMatches(s, i, prefix, cls) ==
    IF i > Len(s) + 1 THEN <<>>
    ELSE LET n == JsClsMatchLen(s, i, prefix, cls)
         IN  IF n = -1 THEN JsMatches(s, i + 1, prefix, cls)
             ELSE IF n = 0
             THEN <<[at |-> i, len |-> 0]>> \o JsMatches(s, i + 1, prefix, cls)
             ELSE <<[at |-> i, len |-> n]>> \o JsMatches(s, i + n, prefix, cls)

MatchText(s, m) == SubSeq(s, m.at, m.at + m.len - 1)

MatchTexts(s, ms) == [j \in DOMAIN ms |-> MatchText(s, ms[j])]

\* String.prototype.replace(regexp, fn): s from index i on, with match ms[j]
\* replaced by reps[j]
RECURSIVE ReplaceMatches(_, _, _, _, _)
ReplaceMatches(s, i, ms, reps, j) ==
    IF j > Len(ms) THEN SubSeq(s, i, Len(s))
    ELSE SubSeq(s, i, ms[j].at - 1) \o reps[j]
            \o ReplaceMatches(s, ms[j].at + ms[j].len, ms, reps, j + 1)

\* replacements.items[a] as a string: the token, or "undefined"
ItemText(its, a) == IF a \in DOMAIN its THEN its[a] ELSE Undefined

EmptyItems == [a \in {} |-> <<>>]

\* Faulty variant: the test for an entry always fails
HasItemNever(its, a) == FALSE

\* replacements.items[a] is truthy (every token is a non-empty string)
HasItem(its, a) == a \in DOMAIN its

\* replacements.items[a] = token
SetItem(its, a, token) == (a :> token) @@ its

----------------------------------------------------------------------------
(* parseCssRules: the class-name catalog *)

\* the names one style rule adds:
\* selectors.join(" ").match(regexp), then join(" ").replace(/\./g, "").split(" ")
RuleClasses(rule, prefix) ==
    LET joined == Join(rule.selectors, <<" ">>)
        ms     == CssMatches(joined, 1, prefix)
    IN  IF ms = <<>> THEN <<>>
        ELSE Split(RemoveDots(Join(MatchTexts(joined, ms), <<" ">>)), " ")

\* the loop over this.rules: media rules and rules of other types add nothing
RECURSIVE CollectClasses(_, _, _)
CollectClasses(rs, i, prefix) ==
    IF i > Len(rs) THEN <<>>
    ELSE IF rs[i].type = "media" THEN CollectClasses(rs, i + 1, prefix)
    ELSE IF rs[i].type # "rule" THEN CollectClasses(rs, i + 1, prefix)
    ELSE RuleClasses(rs[i], prefix) \o CollectClasses(rs, i + 1, prefix)

\* Faulty variant: the comparison the other way round
CompareLengthAscending(a, b) == Len(a) - Len(b)

\* function (a, b) { return b.length - a.length; }: negative when a goes first
CompareLength(a, b) == Len(b) - Len(a)

\* x put into the sorted sequence s after every element that does not go after it
RECURSIVE InsertSorted(_, _)
InsertSorted(s, x) ==
    IF s = <<>> THEN <<x>>
    ELSE IF CompareLength(s[1], x) <= 0 THEN <<s[1]>> \o InsertSorted(Tail(s), x)
    ELSE <<x>> \o s

\* Array.prototype.sort with CompareLength (a stable sort)
RECURSIVE SortClasses(_)
SortClasses(s) ==
    IF s = <<>> THEN <<>>
    ELSE InsertSorted(SortClasses(SubSeq(s, 1, Len(s) - 1)), s[Len(s)])

\* Array.prototype.indexOf, 1-based
IndexOf(s, x) == CHOOSE i \in DOMAIN s : s[i] = x /\ \A k \in 1..(i - 1) : s[k] # x

\* .filter(function (cls, pos) { return classes.indexOf(cls) == pos; })
RECURSIVE FilterFirst(_, _)
FilterFirst(s, i) ==
    IF i > Len(s) THEN <<>>
    ELSE IF IndexOf(s, s[i]) = i THEN <<s[i]>> \o FilterFirst(s, i + 1)
    ELSE FilterFirst(s, i + 1)

\* this.classes after parseCssRules
ParseCssRules(rs, prefix) ==
    LET sorted == SortClasses(CollectClasses(rs, 1, prefix))
    IN  FilterFirst(sorted, 1)

----------------------------------------------------------------------------
(* replaceItem and replaceAll.  st = [key, counter, items, count] is the   *)
(* engine's state; `key` is the local variable of the method.              *)

\* the loop over matches: it ends at the first empty (falsy) match
RECURSIVE RegisterMatches(_, _, _, _)
RegisterMatches(ms, i, st, text) ==
    IF i > Len(ms) THEN st
    ELSE IF ms[i] = <<>> THEN st
    ELSE IF HasItem(st.items, ms[i]) THEN RegisterMatches(ms, i + 1, st, text)
    ELSE LET s == Succ(st.counter, text)
         IN  RegisterMatches(ms, i + 1,
                 [key     |-> s.className,
                  counter |-> s.counter,
                  items   |-> SetItem(st.items, ms[i], st.key),
                  count   |-> st.count],
                 text)

\* Faulty variant: one count for a literal, however many matches it has
CountLiteral(cnt, ms) == cnt + 1

\* replacements.count after value.replace(regexp, fn) has called fn for each of
\* the matches ms
CountMatches(cnt, ms) == cnt + Len(ms)

\* the end of replaceItem: every match replaced by its entry, written back
ReplaceItemResult(value, ms, texts, after) ==
    [value   |-> ReplaceMatches(value, 1, ms,
                     [j \in DOMAIN ms |-> ItemText(after.items, texts[j])], 1),
     key     |-> after.key,
     counter |-> after.counter,
     items   |-> after.items,
     count   |-> CountMatches(after.count, ms)]

ReplaceItemMatches(value, ms, st, text) ==
    IF ms = <<>>
    THEN [value |-> value, key |-> st.key, counter |-> st.counter,
          items |-> st.items, count |-> st.count]
    ELSE ReplaceItemResult(value, ms, MatchTexts(value, ms),
             RegisterMatches(MatchTexts(value, ms), 1, st, text))

\* replaceItem(node) for a string literal of value `value`:
\* [value, key, counter, items, count] as the method leaves them
ReplaceItem(value, st, text, prefix, cls) ==
    ReplaceItemMatches(value, JsMatches(value, 1, prefix, cls), st, text)

\* the forEach of replaceAll over this.classes, from index i on; the local key
\* is not written back to this.key
RECURSIVE ReplaceAllFrom(_, _, _, _)
ReplaceAllFrom(cls, i, st, text) ==
    IF i > Len(cls) THEN st
    ELSE IF HasItem(st.items, cls[i]) THEN ReplaceAllFrom(cls, i + 1, st, text)
    ELSE ReplaceAllFrom(cls, i + 1,
             [key     |-> Succ(st.counter, text).className,
              counter |-> Succ(st.counter, text).counter,
              items   |-> SetItem(st.items, cls[i], st.key),
              count   |-> st.count + 1],
             text)

----------------------------------------------------------------------------
(* generateCss.  st = [counter, items]; n counts the class occurrences that *)
(* the replace callback rewrote.                                            *)

\* a.replace(".", "")
Clazz(a) == SubSeq(a, 2, Len(a))

\* the replace callback's if: a class without entry gets the token s.className
\* of a succ() call when the rule's joined selectors contain ':not'
MintIfNegated(st, clazz, hasNot, s) ==
    IF ~HasItem(st.items, clazz) /\ hasNot
    THEN [counter |-> s.counter, items |-> SetItem(st.items, clazz, s.className)]
    ELSE st

\* the replace callback over the matches of one selector, from match j on;
\* reps collects what each match is replaced by
RECURSIVE ResolveMatches(_, _, _, _, _, _)
ResolveNext(texts, j, hasNot, st, reps, text) ==
    ResolveMatches(texts, j + 1, hasNot, st,
        Append(reps, <<".">> \o ItemText(st.items, Clazz(texts[j]))), text)

ResolveMatches(texts, j, hasNot, st, reps, text) ==
    IF j > Len(texts) THEN [reps |-> reps, counter |-> st.counter, items |-> st.items]
    ELSE ResolveNext(texts, j, hasNot,
             MintIfNegated(st, Clazz(texts[j]), hasNot, Succ(st.counter, text)),
             reps, text)

\* rule.selectors.join(" ").indexOf(':not') > -1
HasNot(sels) == Contains(Join(sels, <<" ">>), <<":", "n", "o", "t">>)

\* /undefined/.test(selector) decides whether the rewritten selector is kept
PushSelector(acc, selector, n) ==
    [newSelectors |-> IF Contains(selector, Undefined)
                      THEN acc.newSelectors
                      ELSE Append(acc.newSelectors, selector),
     rewritten    |-> Append(acc.rewritten, selector),
     n            |-> acc.n + n]

\* the loop over rule.selectors, from selector j on (it ends at an empty selector)
RECURSIVE RewriteSelectors(_, _, _, _, _, _)
RewriteNext(sels, j, ms, r, acc, text, prefix) ==
    RewriteSelectors(sels, j + 1, [counter |-> r.counter, items |-> r.items],
        PushSelector(acc, ReplaceMatches(sels[j], 1, ms, r.reps, 1), Len(ms)),
        text, prefix)

RewriteSelector(sels, j, ms, st, acc, text, prefix) ==
    RewriteNext(sels, j, ms,
        ResolveMatches(MatchTexts(sels[j], ms), 1, HasNot(sels), st, <<>>, text),
        acc, text, prefix)

RewriteSelectors(sels, j, st, acc, text, prefix) ==
    IF j > Len(sels) \/ sels[j] = <<>>
    THEN [newSelectors |-> acc.newSelectors, rewritten |-> acc.rewritten,
          n |-> acc.n, counter |-> st.counter, items |-> st.items]
    ELSE RewriteSelector(sels, j, CssMatches(sels[j], 1, prefix), st, acc, text, prefix)

\* Faulty variant: the selectors that were kept, whatever their number
KeptSurvivors(sels, newSelectors) == newSelectors

\* what a rule's selector list becomes, given the selectors that were kept
KeptSelectors(sels, newSelectors) ==
    IF Len(newSelectors) = Len(sels) THEN newSelectors ELSE <<>>

\* the end of one style rule of generateCss, r the result of its selector loop
RuleResult(rule, r) ==
    [rule      |-> [rule EXCEPT !.selectors = KeptSelectors(rule.selectors, r.newSelectors)],
     rewritten |-> r.rewritten,
     n         |-> r.n,
     counter   |-> r.counter,
     items     |-> r.items]

\* one style rule of generateCss (the same code serves rules inside a media block)
RewriteRule(rule, st, text, prefix) ==
    RuleResult(rule,
        RewriteSelectors(rule.selectors, 1, st,
            [newSelectors |-> <<>>, rewritten |-> <<>>, n |-> 0], text, prefix))

\* the loop over this.rules from rule i on (nested = inside a media block, where
\* only style rules are looked at); log gets one entry per style rule rewritten,
\* with the class names the table has before and after the rule
RECURSIVE RewriteRules(_, _, _, _, _, _)
AfterMedia(rs, i, in, text, prefix, nested) ==
    RewriteRules([rs EXCEPT ![i].rules = in.rules], i + 1,
        [counter |-> in.counter, items |-> in.items, n |-> in.n, log |-> in.log],
        text, prefix, nested)

AfterRule(rs, i, st, r, text, prefix, nested) ==
    RewriteRules([rs EXCEPT ![i] = r.rule], i + 1,
        [counter |-> r.counter, items |-> r.items, n |-> st.n + r.n,
         log |-> Append(st.log, [original  |-> rs[i].selectors,
                                 rewritten |-> r.rewritten,
                                 nested    |-> nested,
                                 before    |-> DOMAIN st.items,
                                 after     |-> DOMAIN r.items])],
        text, prefix, nested)

RewriteRules(rs, i, st, text, prefix, nested) ==
    IF i > Len(rs) THEN [rules |-> rs, counter |-> st.counter, items |-> st.items,
                         n |-> st.n, log |-> st.log]
    ELSE IF rs[i].type = "media" /\ ~nested
    THEN AfterMedia(rs, i, RewriteRules(rs[i].rules, 1, st, text, prefix, TRUE),
                    text, prefix, nested)
    ELSE IF rs[i].type # "rule"
    THEN RewriteRules(rs, i + 1, st, text, prefix, nested)
    ELSE AfterRule(rs, i, st,
             RewriteRule(rs[i], [counter |-> st.counter, items |-> st.items], text, prefix),
             text, prefix, nested)

\* the style rules of a rule list in the order generateCss visits them
RECURSIVE StyleRules(_, _)
StyleRules(rs, i) ==
    IF i > Len(rs) THEN <<>>
    ELSE IF rs[i].type = "media" THEN StyleRules(rs[i].rules, 1) \o StyleRules(rs, i + 1)
    ELSE IF rs[i].type # "rule" THEN StyleRules(rs, i + 1)
    ELSE <<rs[i]>> \o StyleRules(rs, i + 1)

----------------------------------------------------------------------------
(* Inputs: stylesheets (as the rule lists css.parse gives), scripts (as the *)
(* nodes estraverse enters) and configurations.                             *)

StyleRule(sels) == [type |-> "rule", selectors |-> sels, rules |-> <<>>]

MediaRule(rs) == [type |-> "media", selectors |-> <<>>, rules |-> rs]

CommentRule == [type |-> "comment", selectors |-> <<>>, rules |-> <<>>]

\* a stylesheet text whose parse is the rule list rs
RECURSIVE CssSource(_, _)
CssSource(rs, i) ==
    IF i > Len(rs) THEN <<>>
    ELSE (CASE rs[i].type = "rule" ->
                 Join(rs[i].selectors, <<",">>) \o <<"{", "}">>
            [] rs[i].type = "media" ->
                 <<"@", "m", "e", "d", "i", "a", " ", "x", "{">>
                     \o CssSource(rs[i].rules, 1) \o <<"}">>
            [] OTHER -> <<"/", "*", "*", "/">>)
         \o CssSource(rs, i + 1)

ClsA    == <<"a">>
ClsB    == <<"b">>
ClsC    == <<"c">>
ClsM    == <<"m">>
ClsAB   == <<"a", "b">>
ClsABC  == <<"a", "b", "c">>
ClsFoo  == <<"f", "o", "o">>
ClsDA   == <<"d", "-", "a">>
ClsDZ   == <<"d", "-", "z">>
ClsUnderscore == <<"_">>

Sel(cls) == <<".">> \o cls

\* .x:not(.y)
SelNot(x, y) == Sel(x) \o <<":", "n", "o", "t", "(">> \o Sel(y) \o <<")">>

\* p.a
SelPA == <<"p">> \o Sel(ClsA)

PrefixD == <<"d", "-">>

SheetFoo     == <<StyleRule(<<Sel(ClsFoo)>>)>>
SheetLengths == <<StyleRule(<<Sel(ClsAB)>>), StyleRule(<<Sel(ClsA)>>),
                  StyleRule(<<Sel(ClsABC)>>)>>
SheetPair    == <<StyleRule(<<Sel(ClsA), Sel(ClsB)>>)>>
SheetMedia   == <<CommentRule, StyleRule(<<Sel(ClsA)>>),
                  MediaRule(<<StyleRule(<<Sel(ClsM)>>)>>)>>
SheetNot     == <<StyleRule(<<Sel(ClsB)>>), StyleRule(<<SelNot(ClsA, ClsB), Sel(ClsC)>>)>>
SheetPrefix  == <<StyleRule(<<Sel(ClsDA)>>), StyleRule(<<Sel(ClsB)>>)>>
SheetMediaNot == <<StyleRule(<<Sel(ClsA)>>), StyleRule(<<Sel(ClsB)>>),
                   MediaRule(<<StyleRule(<<SelNot(ClsM, ClsA)>>)>>)>>
SheetTagged  == <<StyleRule(<<SelPA>>), StyleRule(<<Sel(ClsB)>>)>>
SheetNoClass == <<StyleRule(<<<<"p">>>>)>>
SheetUnderscore == <<StyleRule(<<Sel(ClsUnderscore)>>), StyleRule(<<Sel(ClsA)>>)>>

StringLiteral(v) == [type |-> "Literal", string |-> TRUE, value |-> v]

NumberLiteral == [type |-> "Literal", string |-> FALSE, value |-> <<"1">>]

Identifier(v) == [type |-> "Identifier", string |-> FALSE, value |-> v]

LitFoo == StringLiteral(ClsFoo)
LitA   == StringLiteral(ClsA)
LitM   == StringLiteral(ClsM)
LitABC == StringLiteral(ClsABC)
LitBB  == StringLiteral(ClsB \o <<" ">> \o ClsB)
LitABA == StringLiteral(ClsAB \o <<" ">> \o ClsA)
LitDAZ == StringLiteral(ClsDA \o <<" ">> \o ClsDZ)
LitUnderscore == StringLiteral(ClsUnderscore)

\* the stylesheets, each with the config.prefix it is run with and the nodes
\* its script is made of
Cases ==
    {[css |-> SheetFoo,        prefix |-> NoPrefix, nodes |-> {LitFoo, NumberLiteral, Identifier(ClsFoo)}],
     [css |-> SheetLengths,    prefix |-> NoPrefix, nodes |-> {LitABA, LitABC}],
     [css |-> SheetPair,       prefix |-> NoPrefix, nodes |-> {LitA, LitBB, LitABA}],
     [css |-> SheetMedia,      prefix |-> NoPrefix, nodes |-> {LitA, LitM}],
     [css |-> SheetNot,        prefix |-> NoPrefix, nodes |-> {LitA, LitBB}],
     [css |-> SheetMediaNot,   prefix |-> NoPrefix, nodes |-> {LitA, LitBB}],
     [css |-> SheetPrefix,     prefix |-> PrefixD,  nodes |-> {LitDAZ, LitBB, LitA}],
     [css |-> SheetTagged,     prefix |-> NoPrefix, nodes |-> {LitA, LitBB}],
     [css |-> SheetNoClass,    prefix |-> NoPrefix, nodes |-> {LitA, NumberLiteral}],
     [css |-> SheetUnderscore, prefix |-> NoPrefix, nodes |-> {LitA, LitUnderscore}]}

\* the longest script (in nodes)
MaxNodes == 3

RECURSIVE SeqsUpTo(_, _)
SeqsUpTo(S, n) ==
    IF n = 0 THEN {<<>>}
    ELSE LET shorter == SeqsUpTo(S, n - 1)
         IN  shorter \cup {Append(s, x) : s \in {t \in shorter : Len(t) = n - 1}, x \in S}

Scripts(nodes) == SeqsUpTo(nodes, MaxNodes)

\* Faulty variant: the initial key of the older build
InitKeyOlder == <<"a", "0">>

\* this.key as the constructor sets it
InitKey == <<"_">>

----------------------------------------------------------------------------
(* The engine: new Replacer(config), run(), generateCss(), generateJs()    *)

\* the hook config.replace: emptyFn returns undefined; a hook of the user's may
\* return false for any node
HookVetoes(replace) == IF replace = "emptyFn" THEN {FALSE} ELSE BOOLEAN

\* which operation added each entry of the table (history)
AddedBy(by, old, new, op) ==
    [a \in DOMAIN new |-> IF a \in DOMAIN old THEN by[a] ELSE op]

NoHistory ==
    [lit |-> 0, all |-> 0, sel |-> 0, log |-> <<>>, first |-> <<>>, by |-> EmptyItems]

NoAdapter == [variant |-> "none"]

\* the state the constructor leaves, for a configuration and the files it names
Constructed(prefix, replaceAll, replace) ==
    /\ config = [prefix |-> prefix, replaceAll |-> replaceAll, replace |-> replace]
    /\ pc = "created"
    /\ cssText = <<>>
    /\ rules = <<>>
    /\ classes = <<>>
    /\ jsAst = <<>>
    /\ pos = 0
    /\ counter = 0
    /\ key = InitKey
    /\ items = EmptyItems
    /\ count = 0
    /\ hist = NoHistory

Init ==
    /\ \E c \in Cases, replaceAll \in BOOLEAN, replace \in {"emptyFn", "hook"} :
         \E js \in Scripts(c.nodes) :
            /\ files = [css |-> c.css, js |-> js]
            /\ Constructed(c.prefix, replaceAll, replace)
    /\ adConfig = NoAdapter
    /\ adLog = <<>>

\* run(): openFiles(); initFilesAst(); parseCssRules()
Load ==
    /\ pc = "created"
    /\ cssText' = CssSource(files.css, 1)
    /\ rules' = files.css
    /\ jsAst' = files.js
    /\ classes' = ParseCssRules(files.css, config.prefix)
    /\ pos' = 1
    /\ pc' = "replace"
    /\ UNCHANGED <<files, config, counter, key, items, count, hist, adapterVars>>

\* the engine's state as the methods read it
EngineState == [key |-> key, counter |-> counter, items |-> items, count |-> count]

\* the number of table entries an operation added (history)
Added(old, new) == Cardinality(DOMAIN new \ DOMAIN old)

\* the first of the names ms that has no entry in its (history)
FirstNew(ms, its) ==
    LET new == {j \in DOMAIN ms : ms[j] # <<>> /\ ms[j] \notin DOMAIN its}
    IN  IF new = {} THEN <<>>
        ELSE <<ms[CHOOSE j \in new : \A k \in new : j <= k]>>

\* replaceItem(node) on the node at pos, r what it gives; hist takes down the
\* occurrences replaced and the entries added
EnterLiteral(r, ms) ==
    /\ jsAst' = [jsAst EXCEPT ![pos].value = r.value]
    /\ key' = r.key
    /\ counter' = r.counter
    /\ items' = r.items
    /\ count' = r.count
    /\ hist' = [hist EXCEPT !.lit = @ + Len(ms),
                            !.first = IF @ = <<>>
                                      THEN FirstNew(MatchTexts(jsAst[pos].value, ms), items)
                                      ELSE @,
                            !.by = AddedBy(@, items, r.items, "replaceItem")]

\* replace(): estraverse enters the next node
Enter ==
    /\ pc = "replace"
    /\ pos <= Len(jsAst)
    /\ \E veto \in HookVetoes(config.replace) :
         IF veto \/ jsAst[pos].type # "Literal" \/ ~jsAst[pos].string
         THEN UNCHANGED <<jsAst, key, counter, items, count, hist>>
         ELSE EnterLiteral(ReplaceItem(jsAst[pos].value, EngineState, cssText,
                                       config.prefix, classes),
                           JsMatches(jsAst[pos].value, 1, config.prefix, classes))
    /\ pos' = pos + 1
    /\ UNCHANGED <<files, config, pc, cssText, rules, classes, adapterVars>>

\* replaceAll(), r what its forEach gives: this.key stays as it was
ReplaceAll(r) ==
    /\ counter' = r.counter
    /\ items' = r.items
    /\ count' = r.count
    /\ hist' = [hist EXCEPT !.all = @ + Added(items, r.items),
                            !.by = AddedBy(@, items, r.items, "replaceAll")]

\* replace() after the traversal: replaceAll() when configured; run() returns
\* (config.replacementsOutput is not set)
FinishReplace ==
    /\ pc = "replace"
    /\ pos > Len(jsAst)
    /\ IF config.replaceAll
       THEN ReplaceAll(ReplaceAllFrom(classes, 1, EngineState, cssText))
       ELSE UNCHANGED <<counter, items, count, hist>>
    /\ pc' = "ran"
    /\ UNCHANGED <<files, config, cssText, rules, classes, jsAst, pos, key, adapterVars>>

\* generateCss(), r what the loop over this.rules gives
GenerateCssResult(r) ==
    /\ rules' = r.rules
    /\ counter' = r.counter
    /\ items' = r.items
    /\ hist' = [hist EXCEPT !.sel = @ + r.n,
                            !.log = r.log,
                            !.by = AddedBy(@, items, r.items, "generateCss")]

\* generateCss()
GenerateCss ==
    /\ pc = "ran"
    /\ GenerateCssResult(RewriteRules(rules, 1,
           [counter |-> counter, items |-> items, n |-> 0, log |-> <<>>],
           cssText, config.prefix, FALSE))
    /\ pc' = "css"
    /\ UNCHANGED <<files, config, cssText, classes, jsAst, pos, key, count, adapterVars>>

\* generateJs(): the script is serialized, nothing changes
GenerateJs ==
    /\ pc = "css"
    /\ pc' = "done"
    /\ UNCHANGED <<files, config, cssText, rules, classes, jsAst, pos, counter, key,
                   items, count, hist, adapterVars>>

\* getReplacementsCount()
GetReplacementsCount == count

Next == Load \/ Enter \/ FinishReplace \/ GenerateCss \/ GenerateJs

Spec == Init /\ [][Next]_vars

----------------------------------------------------------------------------
(* Properties of the engine, checked under Spec *)

AfterRun == pc \in {"ran", "css", "done"}

AfterGenerateCss == pc \in {"css", "done"}

\* the tokens in the table
Tokens == {items[a] : a \in DOMAIN items}

\* C1: no two distinct class names of replacements.items map to the same token,
\* in every state of run() followed by generateCss() and generateJs().
InjectiveTable ==
    \A a, b \in DOMAIN items : a # b => items[a] # items[b]

\* C1 happens: a finished run whose table has an entry from replaceItem, one from
\* replaceAll and one minted by generateCss, this.key being a token already used.
WitnessInjective ==
    /\ pc = "done"
    /\ \E a, b, c \in DOMAIN items :
         /\ hist.by[a] = "replaceItem"
         /\ hist.by[b] = "replaceAll"
         /\ hist.by[c] = "generateCss"
    /\ key \in Tokens

\* the class names that stand as class selectors in a stylesheet text
StylesheetClassNames(text) ==
    {Clazz(MatchText(text, m)) : m \in Range(CssMatches(text, 1, NoPrefix))}

\* C2 (as claimed): no token of the table equals a class name that appears as a
\* class selector in the original stylesheet text.
TokensAvoidStylesheetClasses ==
    \A a \in DOMAIN items : items[a] \notin StylesheetClassNames(CssSource(files.css, 1))

\* the counter values succ() is tried from: 0..MaxCounter, whose renderings have
\* one digit, and as many from HighCounter on, whose renderings have two
MaxCounter == 20

HighCounter == 300

CounterValues == (0..MaxCounter) \cup (HighCounter..(HighCounter + MaxCounter))

\* s does not start with a digit, nor with a hyphen followed by a digit
CssIdentSafe(s) ==
    /\ s # <<>>
    /\ s[1] \notin Digits
    /\ ~(Len(s) >= 2 /\ s[1] = "-" /\ s[2] \in Digits)

\* C3: this.key, every token of the table and the token succ() returns from any
\* counter value are CSS-identifier-safe: no leading digit, no leading
\* hyphen-digit.
TokensValid ==
    /\ CssIdentSafe(key)
    /\ \A t \in Tokens : CssIdentSafe(t)
    /\ (pc = "replace" /\ pos = 1) =>
           \A n \in CounterValues : CssIdentSafe(Succ(n, cssText).className)

\* C3 happens: a finished run whose table holds the constructor's key and a token
\* that succ() returned.
WitnessTokensValid ==
    /\ pc = "done"
    /\ InitKey \in Tokens
    /\ \E t \in Tokens : t # InitKey

\* a rewritten selector is resolved when it does not contain "undefined"
Resolved(selector) == ~Contains(selector, Undefined)

\* generateCss has rewritten every style rule of the stylesheet, in order
LogMatchesRules ==
    /\ Len(hist.log) = Len(StyleRules(rules, 1))
    /\ Len(hist.log) = Len(StyleRules(files.css, 1))
    /\ \A k \in DOMAIN hist.log :
         hist.log[k].original = StyleRules(files.css, 1)[k].selectors

\* C4 (as claimed): after generateCss every rule keeps exactly its resolved
\* selectors, rewritten; it is empty only when all its selectors are unresolved.
DropOnlyUnresolvedSelectors ==
    AfterGenerateCss =>
        /\ LogMatchesRules
        /\ \A k \in DOMAIN hist.log :
             StyleRules(rules, 1)[k].selectors = SelectSeq(hist.log[k].rewritten, Resolved)

\* C4 (amended): after generateCss a rule keeps all its selectors, rewritten, when
\* every one of them is resolved, and has an empty selector list as soon as one
\* of them is unresolved.
DropWholeRule ==
    AfterGenerateCss =>
        /\ LogMatchesRules
        /\ \A k \in DOMAIN hist.log :
             StyleRules(rules, 1)[k].selectors =
                 IF \A j \in DOMAIN hist.log[k].rewritten : Resolved(hist.log[k].rewritten[j])
                 THEN hist.log[k].rewritten
                 ELSE <<>>

\* C4 happens: generateCss met a rule with a resolved and an unresolved selector.
WitnessMixedRule ==
    /\ pc = "done"
    /\ \E k \in DOMAIN hist.log :
         \E i, j \in DOMAIN hist.log[k].rewritten :
             /\ Resolved(hist.log[k].rewritten[i])
             /\ ~Resolved(hist.log[k].rewritten[j])

\* C5 (as claimed): getReplacementsCount() is the number of occurrences replaced
\* in script literals plus the number of class occurrences replaced in selectors.
CountsLiteralsAndSelectors ==
    GetReplacementsCount = hist.lit + hist.sel

\* C5 (amended): getReplacementsCount() is the number of matches replaced in
\* script literals plus the number of entries replaceAll added.
CountsLiteralsAndReplaceAll ==
    GetReplacementsCount = hist.lit + hist.all

\* C5 happens: literals, replaceAll and generateCss all did something, and the
\* count is not the number of distinct class names.
WitnessCounts ==
    /\ pc = "done"
    /\ hist.lit > 0
    /\ hist.all > 0
    /\ hist.sel > 0
    /\ GetReplacementsCount # Cardinality(DOMAIN items)

\* C6: no step changes or removes an entry of the table: the table only grows.
TableStable ==
    [][\A a \in DOMAIN items : a \in DOMAIN items' /\ items'[a] = items[a]]_vars

\* C6 happens: a finished run in which replaceItem made entries and generateCss,
\* later, made more.
WitnessTableGrew ==
    /\ pc = "done"
    /\ \E a, b \in DOMAIN items :
         hist.by[a] = "replaceItem" /\ hist.by[b] = "generateCss"

\* the class names the configured pattern matches in the stylesheet's style
\* rules, those inside media blocks included
PatternClasses ==
    UNION {UNION {{Clazz(MatchText(r.selectors[j], m)) :
                       m \in Range(CssMatches(r.selectors[j], 1, config.prefix))} :
                  j \in DOMAIN r.selectors} :
           r \in Range(StyleRules(files.css, 1))}

\* C7 (as claimed): with replaceAll, after run() every class name of the
\* stylesheet that matches the pattern has an entry, and generateCss() then drops
\* no selector of any rule, rules inside media blocks included.
ReplaceAllComplete ==
    (config.replaceAll /\ AfterRun) =>
        /\ PatternClasses \subseteq DOMAIN items
        /\ AfterGenerateCss =>
               \A k \in DOMAIN hist.log :
                   Len(StyleRules(rules, 1)[k].selectors) = Len(hist.log[k].original)

\* the run of end-to-end example 1, finished
ExampleOne ==
    /\ files.css = SheetFoo
    /\ files.js = <<LitFoo>>
    /\ config.replace = "emptyFn"
    /\ pc = "done"

\* C9 (as claimed): example 1 gives the table {foo: "0"}, the literal "0" and the
\* selector .0
FirstTokenIsZero ==
    ExampleOne =>
        /\ items = (ClsFoo :> <<"0">>)
        /\ jsAst[1].value = <<"0">>
        /\ rules[1].selectors = <<<<".", "0">>>>

\* C9 (amended): example 1 gives the table {foo: "_"}, the literal "_" and the
\* selector ._ ; in every run the first class name the traversal registers gets
\* the constructor's key "_".
FirstTokenIsInitialKey ==
    /\ ExampleOne =>
           /\ items = (ClsFoo :> <<"_">>)
           /\ jsAst[1].value = <<"_">>
           /\ rules[1].selectors = <<<<".", "_">>>>
    /\ hist.first # <<>> => items[hist.first[1]] = <<"_">>

\* C9 happens: example 1 has run to its end.
WitnessExampleOne == ExampleOne /\ hist.first = <<ClsFoo>>

\* the class names the stylesheet pattern matches in a selector
SelectorClasses(selector, prefix) ==
    {Clazz(MatchText(selector, m)) : m \in Range(CssMatches(selector, 1, prefix))}

\* index p of a selector is inside a :not( ... ) sub-selector
InsideNot(selector, p) ==
    \E q \in 1..p :
        /\ OccursAt(selector, q, <<":", "n", "o", "t", "(">>)
        /\ \A k \in q..p : selector[k] # ")"

\* the class names a selector references inside its :not( ... ) sub-selectors
NegatedClasses(selector, prefix) ==
    {Clazz(MatchText(selector, m)) :
        m \in {n \in Range(CssMatches(selector, 1, prefix)) : InsideNot(selector, n.at)}}

\* the first selector of a rule that references the class a
FirstSelectorWith(sels, a, prefix) ==
    sels[CHOOSE j \in DOMAIN sels :
            /\ a \in SelectorClasses(sels[j], prefix)
            /\ \A i \in 1..(j - 1) : a \notin SelectorClasses(sels[i], prefix)]

\* the entries generateCss added while it rewrote the rule of log entry e
Minted(e) == e.after \ e.before

\* the third part of C12 for the rule of log entry k: a selector with classes
\* without entry, all of them negated in it, is resolved and kept
KeepsNegatedOnly(k) ==
    \A j \in DOMAIN hist.log[k].original :
        LET unmapped == SelectorClasses(hist.log[k].original[j], config.prefix)
                            \ hist.log[k].before
        IN  (/\ unmapped # {}
             /\ unmapped \subseteq NegatedClasses(hist.log[k].original[j], config.prefix))
            => /\ Resolved(hist.log[k].rewritten[j])
               /\ \E i \in DOMAIN StyleRules(rules, 1)[k].selectors :
                    StyleRules(rules, 1)[k].selectors[i] = hist.log[k].rewritten[j]

\* the same in every rule
KeepsNegatedOnlySelectors ==
    AfterGenerateCss => \A k \in DOMAIN hist.log : KeepsNegatedOnly(k)

\* a selector whose only classes without entry are negated ones was rewritten
WitnessNegatedOnly ==
    /\ pc = "done"
    /\ \E k \in DOMAIN hist.log : \E j \in DOMAIN hist.log[k].original :
         LET unmapped == SelectorClasses(hist.log[k].original[j], config.prefix)
                             \ hist.log[k].before
         IN  /\ unmapped # {}
             /\ unmapped \subseteq NegatedClasses(hist.log[k].original[j], config.prefix)

\* C12 (as claimed): generateCss adds an entry only for a class without entry
\* that is referenced inside a :not(...) of the selector being rewritten; a class
\* without entry that no selector of the rule negates gets no entry and its
\* selector is unresolved; a selector whose classes without entry are all
\* negated ones is kept.
MintsOnlyNegatedClasses ==
    AfterGenerateCss =>
        \A k \in DOMAIN hist.log :
            /\ \A a \in Minted(hist.log[k]) :
                 a \in NegatedClasses(
                          FirstSelectorWith(hist.log[k].original, a, config.prefix),
                          config.prefix)
            /\ \A j \in DOMAIN hist.log[k].original :
                 \A a \in SelectorClasses(hist.log[k].original[j], config.prefix)
                             \ hist.log[k].before :
                     (\A i \in DOMAIN hist.log[k].original :
                         a \notin NegatedClasses(hist.log[k].original[i], config.prefix))
                     => /\ a \notin hist.log[k].after
                        /\ ~Resolved(hist.log[k].rewritten[j])
            /\ KeepsNegatedOnly(k)

\* what generateCss does: in a rule whose joined selectors contain ':not' every
\* class without entry gets one, negated or not; in any other rule none does
MintsWhenRuleHasNot ==
    AfterGenerateCss =>
        \A k \in DOMAIN hist.log :
            Minted(hist.log[k]) =
                IF HasNot(hist.log[k].original)
                THEN UNION {SelectorClasses(hist.log[k].original[j], config.prefix) :
                                j \in DOMAIN hist.log[k].original} \ hist.log[k].before
                ELSE {}

\* generateCss gave an entry to a class that no selector of its rule negates
WitnessMintedUnnegated ==
    /\ pc = "done"
    /\ \E k \in DOMAIN hist.log :
         \E a \in Minted(hist.log[k]) :
             \A i \in DOMAIN hist.log[k].original :
                 a \notin NegatedClasses(hist.log[k].original[i], config.prefix)

\* estraverse is about to enter a string literal, under the default pattern
\* configuration, whose value contains no class name of the catalog
AtForeignLiteral ==
    /\ pc = "replace"
    /\ pos <= Len(jsAst)
    /\ config.prefix = NoPrefix
    /\ jsAst[pos].type = "Literal"
    /\ jsAst[pos].string
    /\ \A k \in DOMAIN classes : ~Contains(jsAst[pos].value, classes[k])

\* the step leaves the literal, the table, the pending token and the count
LiteralFrame ==
    /\ jsAst'[pos].value = jsAst[pos].value
    /\ items' = items
    /\ key' = key
    /\ count' = count

\* C13 (as claimed): for every catalog, the empty one included, replaceItem on a
\* string literal that contains no class name of the catalog leaves the
\* literal's value, the table, the pending token and the count unchanged.
FrameOfLiteral == [][AtForeignLiteral => LiteralFrame]_vars

\* the same for the catalogs that are not empty
FrameOfLiteralNonEmptyCatalog ==
    [][AtForeignLiteral /\ classes # <<>> => LiteralFrame]_vars

\* what replaceItem does with the empty catalog: "undefined" goes in at every
\* index of the literal and each insertion is counted; table and token stay
EmptyCatalogInsertsUndefined ==
    [][AtForeignLiteral /\ classes = <<>> /\ jsAst' # jsAst =>
          /\ Len(jsAst'[pos].value) =
                 Len(jsAst[pos].value) + (Len(jsAst[pos].value) + 1) * Len(Undefined)
          /\ OccursAt(jsAst'[pos].value, 1, Undefined)
          /\ count' = count + Len(jsAst[pos].value) + 1
          /\ items' = items
          /\ key' = key]_vars

\* replaceItem has passed a literal without class name of a catalog that is not
\* empty
WitnessForeignLiteral ==
    /\ pc = "replace"
    /\ classes # <<>>
    /\ config.prefix = NoPrefix
    /\ config.replace = "emptyFn"
    /\ pos > 1
    /\ \E n \in 1..(pos - 1) :
         /\ jsAst[n].type = "Literal"
         /\ jsAst[n].string
         /\ jsAst[n].value = files.js[n].value
         /\ \A k \in DOMAIN classes : ~Contains(files.js[n].value, classes[k])

----------------------------------------------------------------------------
(* The catalog alone: parseCssRules on stylesheets made of the rules below *)

RulePool ==
    {StyleRule(<<Sel(ClsAB)>>), StyleRule(<<Sel(ClsA)>>), StyleRule(<<Sel(ClsABC)>>),
     StyleRule(<<Sel(ClsB), Sel(ClsAB)>>), StyleRule(<<Sel(ClsA) \o Sel(ClsB)>>),
     StyleRule(<<Sel(ClsDA)>>), StyleRule(<<<<"p">>>>),
     MediaRule(<<StyleRule(<<Sel(ClsM)>>)>>)}

\* the longest stylesheet (in rules)
MaxRules == 3

InitCatalog ==
    /\ \E css \in SeqsUpTo(RulePool, MaxRules), prefix \in {NoPrefix, PrefixD} :
         /\ files = [css |-> css, js |-> <<>>]
         /\ Constructed(prefix, FALSE, "emptyFn")
    /\ adConfig = NoAdapter
    /\ adLog = <<>>

NextCatalog == Load

SpecCatalog == InitCatalog /\ [][NextCatalog]_vars

\* where the pattern matches in the selectors of the top-level style rules: the
\* name matched, and its place as one number (rule, selector, index)
Occurrences ==
    UNION {UNION {{[name  |-> Clazz(MatchText(files.css[i].selectors[j], m)),
                    place |-> i * 10000 + j * 100 + m.at] :
                       m \in Range(CssMatches(files.css[i].selectors[j], 1, config.prefix))} :
                  j \in DOMAIN files.css[i].selectors} :
           i \in {h \in DOMAIN files.css : files.css[h].type = "rule"}}

FirstPlace(name) ==
    CHOOSE p \in {o.place : o \in {x \in Occurrences : x.name = name}} :
        \A o \in Occurrences : o.name = name => p <= o.place

\* C8: the catalog holds each class name matched in a top-level style rule's
\* selectors exactly once, longest first, names of equal length in the order of
\* their first appearance; .ab, .a, .abc give <<abc, ab, a>> (default pattern).
CatalogOrdered ==
    pc = "replace" =>
        /\ Range(classes) = {o.name : o \in Occurrences}
        /\ \A i, j \in DOMAIN classes : i < j =>
             /\ classes[i] # classes[j]
             /\ Len(classes[i]) >= Len(classes[j])
             /\ Len(classes[i]) = Len(classes[j]) =>
                    FirstPlace(classes[i]) < FirstPlace(classes[j])
        /\ (files.css = SheetLengths /\ config.prefix = NoPrefix) =>
               classes = <<ClsABC, ClsAB, ClsA>>

\* C8 happens: a stylesheet with a repeated name and two names of one length,
\* the later rule holding the name that is first in the other orders.
WitnessCatalog ==
    /\ pc = "replace"
    /\ files.css = <<StyleRule(<<Sel(ClsB), Sel(ClsAB)>>), StyleRule(<<Sel(ClsA)>>),
                     StyleRule(<<Sel(ClsAB)>>)>>
    /\ classes = <<ClsAB, ClsB, ClsA>>

----------------------------------------------------------------------------
(* The gulp adapter: exports.default(config), and the transform it gives   *)
(* to through.obj, called once per file of the stream.  An option that is  *)
(* not given is "unset".                                                    *)

Paths == {"a.css", "b.css", "c.css"}

\* the longest stream (in files)
MaxFiles == 3

UserConfigs ==
    [cssIn : {"unset", "x.css"}, prefix : {"unset", "d-"}, regexp : {"unset", "re"},
     replace : {"unset", "hook"}, replaceAll : {"unset", "true"}]

\* Object.assign({cssIn: file.path}, config)
AssignCssIn(path, cfg) ==
    [cfg EXCEPT !.cssIn = IF cfg.cssIn = "unset" THEN path ELSE cfg.cssIn]

Default(value, default) == IF value = "unset" THEN default ELSE value

\* new Replacer.default(config): the engine as the constructor leaves it
NewReplacer(cfg) ==
    [config  |-> [cssIn      |-> cfg.cssIn,
                  prefix     |-> Default(cfg.prefix, "null"),
                  regexp     |-> Default(cfg.regexp, "null"),
                  replace    |-> Default(cfg.replace, "emptyFn"),
                  replaceAll |-> Default(cfg.replaceAll, "false")],
     counter |-> 0,
     key     |-> InitKey,
     items   |-> EmptyItems,
     count   |-> 0]

\* the engine variables do not take part in the adapter's specification
EngineIdle ==
    /\ files = [css |-> <<>>, js |-> <<>>]
    /\ Constructed(NoPrefix, FALSE, "emptyFn")

InitAdapter ==
    /\ EngineIdle
    /\ \E user \in UserConfigs : adConfig = [variant |-> "umd", user |-> user, config |-> user]
    /\ adLog = <<>>

\* the transform, for the next file of the stream: the closure variable config
\* is assigned, the engine is built from it and run on config.cssIn
Transform ==
    /\ Len(adLog) < MaxFiles
    /\ \E path \in Paths :
         /\ adConfig' = [adConfig EXCEPT !.config = AssignCssIn(path, @)]
         /\ adLog' = Append(adLog, [file     |-> path,
                                    replacer |-> NewReplacer(AssignCssIn(path, adConfig.config))])
    /\ UNCHANGED engineVars

NextAdapter == Transform

SpecAdapter == InitAdapter /\ [][NextAdapter]_vars

\* C10 (as claimed): when cssIn is not configured, the stylesheet read for the
\* n-th file is that file, for every n, and its engine is fresh and carries the
\* user's options.
PerFileIndependence ==
    adConfig.user.cssIn = "unset" =>
        \A n \in DOMAIN adLog :
            /\ adLog[n].replacer.config.cssIn = adLog[n].file
            /\ adLog[n].replacer.config.prefix = Default(adConfig.user.prefix, "null")
            /\ adLog[n].replacer.config.regexp = Default(adConfig.user.regexp, "null")
            /\ adLog[n].replacer.config.replace = Default(adConfig.user.replace, "emptyFn")
            /\ adLog[n].replacer.config.replaceAll = Default(adConfig.user.replaceAll, "false")
            /\ adLog[n].replacer.counter = 0
            /\ adLog[n].replacer.items = EmptyItems

----------------------------------------------------------------------------
(* succ(), one loop iteration per step, in both builds: the current one    *)
(* (pc = "succ") and the older one of lib/replacer.js (pc = "succOlder").  *)
(* A call starts at the head of the loop with any counter value and any    *)
(* stylesheet text; pc = "returned" once the call has returned, with the   *)
(* returned class name in key (the callers assign key = this.succ()).      *)

\* the stylesheet texts the calls are made with
SuccTexts ==
    {CssSource(c.css, 1) : c \in Cases}
        \cup {CssSource(<<StyleRule(<<SelPA, <<"p">> \o Sel(ClsB)>>)>>, 1)}

\* the iterations of one call are counted modulo MaxIter (history)
MaxIter == 3

InitSucc ==
    /\ files = [css |-> <<>>, js |-> <<>>]
    /\ config = [prefix |-> NoPrefix, replaceAll |-> FALSE, replace |-> "emptyFn"]
    /\ pc \in {"succ", "succOlder"}
    /\ cssText \in SuccTexts
    /\ rules = <<>>
    /\ classes = <<>>
    /\ jsAst = <<>>
    /\ pos = 0
    /\ counter \in CounterValues
    /\ key = (IF pc = "succ" THEN InitKey ELSE InitKeyOlder)
    /\ items = EmptyItems
    /\ count = 0
    /\ hist = [start |-> counter, iter |-> 0]
    /\ adConfig = NoAdapter
    /\ adLog = <<>>

\* one more iteration of the loop begins
Iterate == [hist EXCEPT !.iter = (@ + 1) % MaxIter]

\* current build: the rendering is not a valid class name; counter++, continue
SuccInvalid ==
    /\ pc = "succ"
    /\ ~TestClassName(ToString34(counter))
    /\ counter' = counter + 1
    /\ hist' = Iterate
    /\ UNCHANGED <<files, config, pc, cssText, rules, classes, jsAst, pos, key,
                   items, count, adapterVars>>

\* current build: the stylesheet text has the rendering as a class; counter++
SuccCollides ==
    /\ pc = "succ"
    /\ TestClassName(ToString34(counter))
    /\ SearchClass(cssText, ToString34(counter))
    /\ counter' = counter + 1
    /\ hist' = Iterate
    /\ UNCHANGED <<files, config, pc, cssText, rules, classes, jsAst, pos, key,
                   items, count, adapterVars>>

\* older build: the stylesheet text has the rendering as a class; counter++
SuccOlderCollides ==
    /\ pc = "succOlder"
    /\ SearchClass(cssText, ToString34(counter))
    /\ counter' = counter + 1
    /\ hist' = Iterate
    /\ UNCHANGED <<files, config, pc, cssText, rules, classes, jsAst, pos, key,
                   items, count, adapterVars>>

\* current build: break; this.counter++; return className
SuccAccept ==
    /\ pc = "succ"
    /\ TestClassName(ToString34(counter))
    /\ ~SearchClass(cssText, ToString34(counter))
    /\ key' = ToString34(counter)
    /\ counter' = counter + 1
    /\ pc' = "returned"
    /\ hist' = Iterate
    /\ UNCHANGED <<files, config, cssText, rules, classes, jsAst, pos, items, count,
                   adapterVars>>

\* older build: no match; the body of while (true) has no break, so the next
\* iteration begins with the same counter
SuccOlderAgain ==
    /\ pc = "succOlder"
    /\ ~SearchClass(cssText, ToString34(counter))
    /\ hist' = Iterate
    /\ UNCHANGED <<files, config, pc, cssText, rules, classes, jsAst, pos, counter,
                   key, items, count, adapterVars>>

NextSucc ==
    SuccInvalid \/ SuccCollides \/ SuccAccept \/ SuccOlderCollides \/ SuccOlderAgain

\* a call that can take a step takes it
SpecSucc == InitSucc /\ [][NextSucc]_vars /\ WF_vars(NextSucc)

\* the call has returned the rendering of a counter value below this.counter
Returned ==
    /\ pc = "returned"
    /\ \E c \in hist.start..(counter - 1) : ToString34(c) = key

\* C11 (as claimed): in each build, every call to succ returns a token, and the
\* counter is then greater than the counter value whose rendering was returned.
SuccTerminates == <>Returned

\* the same, for the calls of the current build only
SuccTerminatesCurrent == (pc = "succ") ~> Returned

\* a call of the older build stays in its loop
SuccOlderNeverReturns == [][pc = "succOlder" => pc' = "succOlder"]_vars

\* the steps of the current build give what Succ gives
SuccStepsAgree ==
    pc = "returned" =>
        [className |-> key, counter |-> counter] = Succ(hist.start, cssText)

====
